---- MODULE Spec2Model ----
(***************************************************************************)
(* Ticket lifecycle and assignment engine of the HIT ticket management     *)
(* system: the Express route handlers of routes/tickets, routes/assignments *)
(* and routes/admin, run by concurrent requests against one database.      *)
(* Every await of a handler is one atomic step; the code between two       *)
(* awaits runs with the step that precedes it (Node runs it unpreempted).  *)
(* No handler opens a transaction, so the steps of different requests      *)
(* interleave freely.                                                      *)
(***************************************************************************)
EXTENDS Integers, Sequences, FiniteSets, TLC

\* ------------------------------------------------------------------ bounds
\* concurrent request slots
NumProcs == 2
\* requests started in one behaviour
MaxRequests == 4
\* longest ticket_ids array of one bulk-approve call
MaxBulk == 2
\* requests of one behaviour when the clients send them one at a time
MaxSerialRequests == 6
\* writes the database rejects in one behaviour of SpecFaulty
MaxFaults == 1
\* requests of one behaviour of SpecFaulty
MaxFaultyRequests == 5

\* ------------------------------------------------------------- the database
NULL == "null"

Procs == 1..NumProcs

\* users table: the four roles, all of factory F1
Users == {"admin", "manager", "staff", "employee"}

Role(u) ==
  CASE u = "admin" -> "admin"
    [] u = "manager" -> "manager"
    [] u = "staff" -> "support_staff"
    [] OTHER -> "employee"

UserFactory(u) == "F1"

\* an id that is no row of users
GhostUser == "ghost"

Factories == {"F1"}

\* tickets table: the rows that exist; T0 is an id with no row
TicketIds == {"T1"}
MissingTicket == "T0"

TicketFactory(t) == "F1"
TicketRequester(t) == "employee"

Statuses == {"pending", "admin_review", "approved", "rejected",
             "in_progress", "completed", "closed"}

\* VALID_STATUS_TRANSITIONS
VALID_STATUS_TRANSITIONS(s) ==
  CASE s = "pending" -> {"admin_review"}
    [] s = "admin_review" -> {"approved", "rejected"}
    [] s = "approved" -> {"in_progress"}
    [] s = "rejected" -> {}
    [] s = "in_progress" -> {"completed"}
    [] s = "completed" -> {"closed"}
    [] s = "closed" -> {}
    [] OTHER -> {}

isValidStatusTransition(currentStatus, newStatus) ==
  newStatus \in VALID_STATUS_TRANSITIONS(currentStatus)

\* PERMISSIONS[role].tickets.approve / .assign, read through hasPermission
\* without a context: a non-empty array grants, false denies
RolePermits(role, action) ==
  CASE action = "approve" -> role \in {"manager", "admin"}
    [] action = "assign" -> role \in {"manager", "admin"}
    [] action = "create" -> TRUE
    [] OTHER -> FALSE

hasPermission(userRole, action) == RolePermits(userRole, action)

canApproveTickets(u) == hasPermission(Role(u), "approve")
canAssignTickets(u) == hasPermission(Role(u), "assign")
canCreateTickets(u) == hasPermission(Role(u), "create")
supportStaffOrAdmin(u) == Role(u) \in {"support_staff", "admin", "manager"}

\* checkTicketAccess(ticket, user): t is the ticket id, inst the loaded row
checkTicketAccess(t, inst, u) ==
  CASE Role(u) = "admin" -> TRUE
    [] Role(u) = "manager" -> TicketFactory(t) = UserFactory(u)
    [] Role(u) = "support_staff" ->
         inst.assigned_to = u \/ TicketFactory(t) = UserFactory(u)
    [] Role(u) = "employee" -> TicketRequester(t) = u
    [] OTHER -> FALSE

\* priority and creation order of the ticket rows (fixed at creation)
TicketPriority(t) == "medium"
TicketCreatedAt(t) == CASE t = "T1" -> 1 [] t = "T2" -> 2 [] OTHER -> 3

\* the ticket_priority enum's order, as ORDER BY priority compares it
PriorityRank(pr) ==
  CASE pr = "low" -> 1 [] pr = "medium" -> 2 [] pr = "high" -> 3 [] OTHER -> 4

VARIABLES
  tickets,      \* tickets table: id -> [status, assigned_to]
  assignments,  \* ticket_assignments rows, in insertion order
  approvals,    \* ticket_approvals rows, in insertion order
  history,      \* ticket_history rows, in insertion order
  req,          \* per request slot: the handler's position and locals
  last,         \* the response sent by the latest step, if it sent one
  left,         \* requests the clients may still send
  serial,       \* TRUE: clients send a request only after the previous response
  load,         \* per user: further tickets assigned to the user, in_progress,
                \* that no request of the behaviour touches
  zone,         \* the time zone of the server process
  now,          \* the clock, in milliseconds since the epoch
  made,         \* the tickets row written by POST /
  call,         \* a call of a function of the SLA clock and its result
  faults        \* writes of history and notification rows that may still fail

vars ==
  <<tickets, assignments, approvals, history, req, last, left, serial, load,
    zone, now, made, call, faults>>
db == <<tickets, assignments, approvals, history>>
sla == <<zone, now, made, call>>
world == <<left, serial, load, sla>>
env == <<world, faults>>

HourMs == 60 * 60 * 1000

\* Number.prototype.toString: the decimal digits of n, most significant first
RECURSIVE toString(_)
toString(n) == IF n < 10 THEN <<n>> ELSE Append(toString(n \div 10), n % 10)

\* String.prototype.padStart(len, '0')
RECURSIVE PadStart(_, _)
PadStart(s, len) == IF Len(s) >= len THEN s ELSE PadStart(<<0>> \o s, len)

\* String.prototype.slice(-k)
SliceLast(s, k) == IF Len(s) <= k THEN s ELSE SubSeq(s, Len(s) - k + 1, Len(s))

\* parseInt of a string of digits
RECURSIVE ParseInt(_)
ParseInt(s) ==
  IF s = <<>> THEN 0 ELSE 10 * ParseInt(SubSeq(s, 1, Len(s) - 1)) + s[Len(s)]

\* the order of strings of digits, as ORDER BY ticket_number compares them
RECURSIVE StringLess(_, _)
StringLess(a, b) ==
  IF a = <<>> THEN b # <<>>
  ELSE IF b = <<>> THEN FALSE
  ELSE IF a[1] # b[1] THEN a[1] < b[1]
  ELSE StringLess(Tail(a), Tail(b))

\* `${datePrefix}${sequence.toString().padStart(4, '0')}`: the date of the
\* prefix as a day number, the rest of the string as its digits
TicketNumber(datePrefix, sequence) ==
  [prefix |-> datePrefix, suffix |-> PadStart(toString(sequence), 4)]

\* a Sequelize instance not loaded
NoInst ==
  [status |-> NULL, assigned_to |-> NULL, ticket_number |-> NULL,
   approved_at |-> <<>>, assigned_at |-> <<>>, resolved_at |-> <<>>,
   closed_at |-> <<>>]

\* a slot with no request; wrote and was record, for the request's ticket, the
\* history rows it has inserted and the audited column's value in the database
\* just before its ticket.update
Idle ==
  [pc |-> "idle", op |-> NULL, user |-> NULL, id |-> NULL, arg |-> NULL,
   ticket |-> NoInst, old |-> NULL, list |-> <<>>, i |-> 0,
   staff |-> <<>>, staffIndex |-> 0, out |-> <<>>, errs |-> <<>>,
   wrote |-> 0, was |-> NULL]

NoResponse == [op |-> NULL, id |-> NULL, res |-> NULL, out |-> <<>>, errs |-> <<>>]

\* Ticket.create of POST /: status pending, the ticket number, and the
\* columns the handler gives no value (null; a null date is <<>>)
TicketRow(ticketNumber) ==
  [status |-> "pending", assigned_to |-> NULL, ticket_number |-> ticketNumber,
   approved_at |-> <<>>, assigned_at |-> <<>>, resolved_at |-> <<>>,
   closed_at |-> <<>>]

\* a ticket as POST / left it on an earlier day, the first of that day
NewTicket == TicketRow(TicketNumber(0, 1))

\* TicketHistory.create (the columns the lifecycle reads)
HistoryRow(t, action, old, new, field) ==
  [ticket_id |-> t, action |-> action,
   old_value |-> old, new_value |-> new, field_name |-> field]

\* the database after POST / has created the tickets, nothing in flight
InitDb ==
  /\ tickets = [t \in TicketIds |-> NewTicket]
  /\ assignments = <<>>
  /\ approvals = <<>>
  /\ history = <<HistoryRow("T1", "created", NULL, "pending", "status")>>
  /\ req = [p \in Procs |-> Idle]
  /\ last = NoResponse

\* no tickets but those of TicketIds
NoLoad == [u \in Users |-> 0]

\* the instant at which the offset of a zone with daylight saving changes
ShiftAt == 200 * HourMs

\* a time zone: local time = UTC + before until the instant at, + after from then on
UtcZone == [before |-> 0, after |-> 0, at |-> ShiftAt]
SpringZone == [before |-> -5 * HourMs, after |-> -4 * HourMs, at |-> ShiftAt]
AutumnZone == [before |-> -4 * HourMs, after |-> -5 * HourMs, at |-> ShiftAt]
Zones == {UtcZone, SpringZone, AutumnZone}

\* no POST / has run, no function of the SLA clock has been called
NoTicket == [id |-> NULL]
NoCall == [fn |-> NULL]
InitSla ==
  /\ zone = UtcZone /\ now = ShiftAt /\ made = NoTicket /\ call = NoCall
  /\ faults = 0

Init ==
  InitDb /\ left = MaxRequests /\ serial = FALSE /\ load = NoLoad /\ InitSla

InitSerial ==
  InitDb /\ left = MaxSerialRequests /\ serial = TRUE /\ load = NoLoad /\ InitSla

\* ------------------------------------------------------------ store helpers
\* Ticket.findByPk
Found(t) == t \in DOMAIN tickets
findByPk(t) == IF Found(t) THEN tickets[t] ELSE NoInst

\* User.findByPk(...).role, NULL when there is no such user
findUserRole(u) == IF u \in Users THEN Role(u) ELSE NULL

\* the assignee check of assign and reassign
IsSupportUser(u) == findUserRole(u) \in {"support_staff", "manager"}

\* a deactivation that also stamps the rows as completed
DeactivateCompleting(rows, t) ==
  [k \in 1..Len(rows) |->
     IF rows[k].ticket_id = t /\ rows[k].is_active
       THEN [rows[k] EXCEPT !.is_active = FALSE, !.completed_at = "now"]
       ELSE rows[k]]

\* TicketAssignment.update({is_active: false}, {where: {ticket_id, is_active: true}})
Deactivate(rows, t) ==
  [k \in 1..Len(rows) |->
     IF rows[k].ticket_id = t /\ rows[k].is_active
       THEN [rows[k] EXCEPT !.is_active = FALSE]
       ELSE rows[k]]

\* a row that records the assignee as the assigner
AssignmentRowSelf(t, to, by) ==
  [ticket_id |-> t, assigned_to |-> to, assigned_by |-> to,
   is_active |-> TRUE, completed_at |-> NULL]

\* TicketAssignment.create({..., is_active: true})
AssignmentRow(t, to, by) ==
  [ticket_id |-> t, assigned_to |-> to, assigned_by |-> by,
   is_active |-> TRUE, completed_at |-> NULL]

\* TicketApproval.create (the columns the lifecycle reads)
ApprovalRow(t, decision) == [ticket_id |-> t, decision |-> decision]

\* a count that sees only the tickets of TicketIds
WorkloadOfListed(u) ==
  Cardinality({t \in TicketIds :
     tickets[t].assigned_to = u /\ tickets[t].status \in {"in_progress", "approved"}})

\* Ticket.count({where: {assigned_to: u, status: ['in_progress', 'approved']}})
Workload(u) ==
  load[u] + Cardinality({t \in DOMAIN tickets :
     tickets[t].assigned_to = u /\ tickets[t].status \in {"in_progress", "approved"}})

Free(p) == req[p].pc = "idle"
At(p, op, pc) == req[p].op = op /\ req[p].pc = pc

\* a request may arrive on slot p
Arrive(p) ==
  /\ Free(p)
  /\ \A q \in Procs : q < p => ~Free(q)
  /\ serial => \A q \in Procs : Free(q)
  /\ left > 0
  /\ left' = left - 1
  /\ serial' = serial
  /\ load' = load
  /\ UNCHANGED <<sla, faults>>

\* the handler sends its response and the slot is free again
Reply(p, op, t, res, out, errs) ==
  /\ req' = [req EXCEPT ![p] = Idle]
  /\ last' = [op |-> op, id |-> t, res |-> res, out |-> out, errs |-> errs]

\* a response of the handler the slot runs
Respond(p, res) == Reply(p, req[p].op, req[p].id, res, <<>>, <<>>)

\* the arriving request is answered by its first step
Reject(p, op, t, res) == Reply(p, op, t, res, <<>>, <<>>)

\* the arriving request passes its checks and goes on to its writes
Enter(p, r) ==
  /\ req' = [req EXCEPT ![p] = r]
  /\ last' = NoResponse

\* a slot record for a request that has loaded its ticket
Loaded(op, u, t, arg, inst, pc) ==
  [Idle EXCEPT !.pc = pc, !.op = op, !.user = u, !.id = t, !.arg = arg,
               !.ticket = inst]

Goto(p, pc) == req' = [req EXCEPT ![p].pc = pc] /\ last' = NoResponse

\* a write of a history or notification row: the database executes it ...
Works == faults' = faults

\* ... or rejects it, and the create call throws
Fault == faults > 0 /\ faults' = faults - 1

\* a write that puts the row in the place of the latest row of the table
LoggedOverLatest(p, row, pc) ==
  /\ Works
  /\ history' = [history EXCEPT ![Len(history)] = row]
  /\ req' = [req EXCEPT ![p].pc = pc, ![p].wrote = req[p].wrote + 1]
  /\ last' = NoResponse

\* the handler's TicketHistory.create succeeds; wrote counts the rows of
\* ticket_history the request has inserted
Logged(p, row, pc) ==
  /\ Works
  /\ history' = Append(history, row)
  /\ req' = [req EXCEPT ![p].pc = pc, ![p].wrote = req[p].wrote + 1]
  /\ last' = NoResponse

\* createTicketHistory: the row is written, or the error is logged and swallowed
TryLog(p, row, pc) ==
  \/ Logged(p, row, pc)
  \/ Fault /\ history' = history /\ Goto(p, pc)

\* TicketHistory.create inside the handler's try: the row is written, or the
\* error reaches the handler's catch, which answers 500
LogOrThrow(p, row, pc) ==
  \/ Logged(p, row, pc)
  \/ Fault /\ history' = history /\ Respond(p, "error")

\* --------------------------------------------- PUT /:id/status (tickets.ts)
\* the request arrives: body check, findByPk, access check, transition check
StatusStart(p) ==
  /\ Arrive(p)
  /\ \E u \in Users, t \in DOMAIN tickets \cup {MissingTicket}, s \in Statuses \cup {NULL} :
       LET inst == findByPk(t)
       IN IF s = NULL THEN Reject(p, "status", t, "bad_request")
          ELSE IF ~Found(t) THEN Reject(p, "status", t, "not_found")
          ELSE IF ~checkTicketAccess(t, inst, u) THEN Reject(p, "status", t, "forbidden")
          ELSE IF ~isValidStatusTransition(inst.status, s)
            THEN Reject(p, "status", t, "invalid_transition")
          ELSE Enter(p, Loaded("status", NULL, t, s, inst, "update"))
  /\ UNCHANGED db

\* ticket.update({ status })
StatusUpdate(p) ==
  /\ At(p, "status", "update")
  /\ tickets' = [tickets EXCEPT ![req[p].id].status = req[p].arg]
  /\ req' = [req EXCEPT ![p].pc = "history", ![p].ticket.status = req[p].arg,
       ![p].was = tickets[req[p].id].status]
  /\ UNCHANGED <<assignments, approvals, history, env>>
  /\ last' = NoResponse

\* createTicketHistory(.., 'status_changed', ticket.status, status, 'status')
StatusHistory(p) ==
  /\ At(p, "status", "history")
  /\ TryLog(p, HistoryRow(req[p].id, "status_changed",
                         req[p].ticket.status, req[p].arg, "status"), "notify")
  /\ UNCHANGED <<tickets, assignments, approvals, world>>

\* the notifications and res.json
StatusNotify(p) ==
  /\ At(p, "status", "notify")
  /\ \/ Works
     \/ Fault /\ req[p].arg \in {"admin_review", "completed"}
  /\ Respond(p, "ok")
  /\ UNCHANGED <<db, world>>

\* ------------------------------------------- POST /:id/approve (tickets.ts)
Decisions == {"approved", "rejected"}

\* the check that also lets a pending ticket through
NotInAdminReviewLax(inst) == inst.status \notin {"admin_review", "pending"}

\* if (ticket.status !== 'admin_review')
NotInAdminReview(inst) == inst.status # "admin_review"

\* the request arrives: body check, findByPk, the admin_review check
ApproveStart(p) ==
  /\ Arrive(p)
  /\ \E u \in {x \in Users : canApproveTickets(x)},
        t \in DOMAIN tickets \cup {MissingTicket},
        d \in Decisions \cup {"pending"} :
       LET inst == findByPk(t)
       IN IF d \notin Decisions THEN Reject(p, "approve", t, "bad_request")
          ELSE IF ~Found(t) THEN Reject(p, "approve", t, "not_found")
          ELSE IF NotInAdminReview(inst)
            THEN Reject(p, "approve", t, "invalid_state")
          ELSE Enter(p, Loaded("approve", NULL, t, d, inst, "update"))
  /\ UNCHANGED db

\* ticket.update({ status: decision })
ApproveUpdate(p) ==
  /\ At(p, "approve", "update")
  /\ tickets' = [tickets EXCEPT ![req[p].id].status = req[p].arg]
  /\ req' = [req EXCEPT ![p].pc = "approval", ![p].ticket.status = req[p].arg,
       ![p].was = tickets[req[p].id].status]
  /\ UNCHANGED <<assignments, approvals, history, env>>
  /\ last' = NoResponse

\* TicketApproval.create({ticket_id, admin_id, decision, ...})
ApproveRecord(p) ==
  /\ At(p, "approve", "approval")
  /\ approvals' = Append(approvals, ApprovalRow(req[p].id, req[p].arg))
  /\ Goto(p, "history")
  /\ UNCHANGED <<tickets, assignments, history, env>>

\* createTicketHistory(.., decision, 'admin_review', decision, 'status')
ApproveHistory(p) ==
  /\ At(p, "approve", "history")
  /\ TryLog(p, HistoryRow(req[p].id, req[p].arg, "admin_review", req[p].arg, "status"),
       "notify")
  /\ UNCHANGED <<tickets, assignments, approvals, world>>

\* the requester's notification and res.json
ApproveNotify(p) ==
  /\ At(p, "approve", "notify")
  /\ Works \/ Fault
  /\ Respond(p, "ok")
  /\ UNCHANGED <<db, world>>

\* --------------------------------- POST /tickets/bulk-approve (admin.ts)
\* the ticket_ids arrays a client may send
BulkLists ==
  UNION {[1..n -> TicketIds \cup {MissingTicket}] : n \in 0..MaxBulk}

\* one pass of the loop head: findByPk(ticket_ids[i]) and its two checks.
\* r is the slot with r.i the element to load; a skipped last element
\* falls through to res.json
BulkSkips(r) ==
  ~Found(r.list[r.i]) \/ findByPk(r.list[r.i]).status # "admin_review"

BulkLoad(p, r) ==
  LET t == r.list[r.i]
      inst == findByPk(t)
      bad == BulkSkips(r)
      why == IF ~Found(t) THEN "not_found" ELSE "invalid_state"
      errs == Append(r.errs, [ticketId |-> t, error |-> why])
  IN IF bad /\ r.i = Len(r.list) THEN Reply(p, "bulk", NULL, "ok", r.out, errs)
     ELSE IF bad
       THEN /\ req' = [req EXCEPT ![p] = [r EXCEPT !.pc = "find", !.i = r.i + 1,
                                                   !.errs = errs]]
            /\ last' = NoResponse
     ELSE /\ req' = [req EXCEPT ![p] = [r EXCEPT !.pc = "update", !.id = t,
                                                 !.ticket = inst]]
          /\ last' = NoResponse

\* the request arrives: body checks and the first findByPk
BulkStart(p) ==
  /\ Arrive(p)
  /\ \E u \in {x \in Users : canApproveTickets(x)},
        ids \in BulkLists, d \in Decisions \cup {"pending"} :
       IF ids = <<>> \/ d \notin Decisions THEN Reject(p, "bulk", NULL, "bad_request")
       ELSE LET r == [Idle EXCEPT !.op = "bulk", !.arg = d,
                                  !.list = ids, !.i = 1]
            IN BulkLoad(p, r)
  /\ UNCHANGED db

\* findByPk of a later element
BulkFind(p) ==
  /\ At(p, "bulk", "find")
  /\ BulkLoad(p, req[p])
  /\ UNCHANGED <<db, env>>

\* ticket.update({ status: decision })
BulkUpdate(p) ==
  /\ At(p, "bulk", "update")
  /\ tickets' = [tickets EXCEPT ![req[p].id].status = req[p].arg]
  /\ req' = [req EXCEPT ![p].pc = "approval", ![p].ticket.status = req[p].arg,
       ![p].was = tickets[req[p].id].status]
  /\ UNCHANGED <<assignments, approvals, history, env>>
  /\ last' = NoResponse

\* TicketApproval.create
BulkRecord(p) ==
  /\ At(p, "bulk", "approval")
  /\ approvals' = Append(approvals, ApprovalRow(req[p].id, req[p].arg))
  /\ Goto(p, "history")
  /\ UNCHANGED <<tickets, assignments, history, env>>

\* the catch of the loop body: errors.push and the next element, or res.json
BulkFailed(p) ==
  LET r == req[p]
      errs == Append(r.errs, [ticketId |-> r.id, error |-> "failed"])
  IN IF r.i = Len(r.list) THEN Reply(p, "bulk", NULL, "ok", r.out, errs)
     ELSE /\ req' = [req EXCEPT ![p] =
               [r EXCEPT !.pc = "find", !.i = r.i + 1, !.errs = errs]]
          /\ last' = NoResponse

\* TicketHistory.create({action: decision, old_value: 'admin_review', ...})
BulkHistory(p) ==
  /\ At(p, "bulk", "history")
  /\ \/ Logged(p, HistoryRow(req[p].id, req[p].arg, "admin_review", req[p].arg,
                              "status"), "notify")
     \/ Fault /\ history' = history /\ BulkFailed(p)
  /\ UNCHANGED <<tickets, assignments, approvals, world>>

\* Notification.create, results.push, and res.json after the last element
BulkNotify(p) ==
  /\ At(p, "bulk", "notify")
  /\ \/ /\ Works
        /\ LET r == req[p]
               out == Append(r.out, [ticketId |-> r.id, status |-> r.arg])
           IN IF r.i = Len(r.list) THEN Reply(p, "bulk", NULL, "ok", out, r.errs)
              ELSE /\ req' = [req EXCEPT ![p] =
                        [r EXCEPT !.pc = "find", !.i = r.i + 1, !.out = out]]
                   /\ last' = NoResponse
     \/ Fault /\ BulkFailed(p)
  /\ UNCHANGED <<db, world>>

\* -------------------------------------------- POST /:id/assign (tickets.ts)
\* the check that also lets a pending ticket through
NotApprovedLax(inst) == inst.status \notin {"approved", "pending"}

\* if (ticket.status !== 'approved')
NotApproved(inst) == inst.status # "approved"

\* the request arrives: body check, findByPk, the approved check
AssignStart(p) ==
  /\ Arrive(p)
  /\ \E u \in {x \in Users : canAssignTickets(x)},
        t \in DOMAIN tickets \cup {MissingTicket},
        a \in Users \cup {GhostUser, NULL} :
       LET inst == findByPk(t)
       IN IF a = NULL THEN Reject(p, "assign", t, "bad_request")
          ELSE IF ~Found(t) THEN Reject(p, "assign", t, "not_found")
          ELSE IF NotApproved(inst) THEN Reject(p, "assign", t, "invalid_state")
          ELSE Enter(p, Loaded("assign", u, t, a, inst, "user"))
  /\ UNCHANGED db

\* User.findByPk(assigned_to) and the role check
AssignFindUser(p) ==
  /\ At(p, "assign", "user")
  /\ IF ~IsSupportUser(req[p].arg) THEN Respond(p, "validation")
     ELSE Goto(p, "deactivate")
  /\ UNCHANGED <<db, env>>

\* TicketAssignment.update({is_active: false}, ...)
AssignDeactivate(p) ==
  /\ At(p, "assign", "deactivate")
  /\ assignments' = Deactivate(assignments, req[p].id)
  /\ Goto(p, "create")
  /\ UNCHANGED <<tickets, approvals, history, env>>

\* TicketAssignment.create
AssignCreate(p) ==
  /\ At(p, "assign", "create")
  /\ assignments' = Append(assignments,
       AssignmentRow(req[p].id, req[p].arg, req[p].user))
  /\ Goto(p, "update")
  /\ UNCHANGED <<tickets, approvals, history, env>>

\* ticket.update({ assigned_to, status: 'in_progress' })
AssignUpdate(p) ==
  /\ At(p, "assign", "update")
  /\ tickets' = [tickets EXCEPT ![req[p].id].status = "in_progress",
                              ![req[p].id].assigned_to = req[p].arg]
  /\ req' = [req EXCEPT ![p].pc = "history",
       ![p].ticket.status = "in_progress", ![p].ticket.assigned_to = req[p].arg,
       ![p].was = tickets[req[p].id].assigned_to]
  /\ UNCHANGED <<assignments, approvals, history, env>>
  /\ last' = NoResponse

\* createTicketHistory(.., 'assigned', ticket.assigned_to, assigned_to, 'assigned_to')
AssignHistory(p) ==
  /\ At(p, "assign", "history")
  /\ TryLog(p, HistoryRow(req[p].id, "assigned", req[p].ticket.assigned_to, req[p].arg,
                   "assigned_to"),
       "notify")
  /\ UNCHANGED <<tickets, assignments, approvals, world>>

\* the assignee's notification and res.json
AssignNotify(p) ==
  /\ At(p, "assign", "notify")
  /\ Works \/ Fault
  /\ Respond(p, "ok")
  /\ UNCHANGED <<db, world>>

\* --------------------------- POST /self-assign/:ticketId (assignments.ts)
maxWorkload == 10

\* the request arrives: findByPk, the approved, unassigned and factory checks
SelfAssignStart(p) ==
  /\ Arrive(p)
  /\ \E u \in {x \in Users : supportStaffOrAdmin(x)},
        t \in DOMAIN tickets \cup {MissingTicket} :
       LET inst == findByPk(t)
       IN IF ~Found(t) THEN Reject(p, "selfAssign", t, "not_found")
          ELSE IF inst.status # "approved"
            THEN Reject(p, "selfAssign", t, "invalid_state")
          ELSE IF inst.assigned_to # NULL
            THEN Reject(p, "selfAssign", t, "already_assigned")
          ELSE IF Role(u) = "support_staff" /\ TicketFactory(t) # UserFactory(u)
            THEN Reject(p, "selfAssign", t, "forbidden")
          ELSE Enter(p, Loaded("selfAssign", u, t, u, inst, "count"))
  /\ UNCHANGED db

\* Ticket.count of the user's active tickets and the workload limit
SelfAssignCount(p) ==
  /\ At(p, "selfAssign", "count")
  /\ IF Workload(req[p].user) >= maxWorkload
       THEN Respond(p, "capacity")
       ELSE Goto(p, "create")
  /\ UNCHANGED <<db, env>>

\* TicketAssignment.create({assigned_to: userId, assigned_by: userId})
SelfAssignCreate(p) ==
  /\ At(p, "selfAssign", "create")
  /\ assignments' = Append(assignments,
       AssignmentRow(req[p].id, req[p].user, req[p].user))
  /\ Goto(p, "update")
  /\ UNCHANGED <<tickets, approvals, history, env>>

\* ticket.update({ assigned_to: userId, status: 'in_progress' })
SelfAssignUpdate(p) ==
  /\ At(p, "selfAssign", "update")
  /\ tickets' = [tickets EXCEPT ![req[p].id].status = "in_progress",
                              ![req[p].id].assigned_to = req[p].user]
  /\ req' = [req EXCEPT ![p].pc = "history",
       ![p].ticket.status = "in_progress", ![p].ticket.assigned_to = req[p].user]
  /\ UNCHANGED <<assignments, approvals, history, env>>
  /\ last' = NoResponse

\* TicketHistory.create({action: 'assigned', old_value: null, new_value: userId})
SelfAssignHistory(p) ==
  /\ At(p, "selfAssign", "history")
  /\ LogOrThrow(p, HistoryRow(req[p].id, "assigned", NULL, req[p].user, "assigned_to"),
       "notify")
  /\ UNCHANGED <<tickets, assignments, approvals, world>>

\* Notification.create and res.json
SelfAssignNotify(p) ==
  /\ At(p, "selfAssign", "notify")
  /\ \/ Works /\ Respond(p, "ok")
     \/ Fault /\ Respond(p, "error")
  /\ UNCHANGED <<db, world>>

\* ------------------------------ POST /reassign/:ticketId (assignments.ts)
\* the request arrives: body check, findByPk, the assigned check
ReassignStart(p) ==
  /\ Arrive(p)
  /\ \E u \in {x \in Users : canAssignTickets(x)},
        t \in DOMAIN tickets \cup {MissingTicket},
        a \in Users \cup {GhostUser, NULL} :
       LET inst == findByPk(t)
       IN IF a = NULL THEN Reject(p, "reassign", t, "bad_request")
          ELSE IF ~Found(t) THEN Reject(p, "reassign", t, "not_found")
          ELSE IF inst.assigned_to = NULL
            THEN Reject(p, "reassign", t, "not_assigned")
          ELSE Enter(p, Loaded("reassign", u, t, a, inst, "user"))
  /\ UNCHANGED db

\* User.findByPk(assigned_to), the role check, oldAssignedTo = ticket.assigned_to
ReassignFindUser(p) ==
  /\ At(p, "reassign", "user")
  /\ IF ~IsSupportUser(req[p].arg) THEN Respond(p, "validation")
     ELSE /\ req' = [req EXCEPT ![p].pc = "deactivate",
                                ![p].old = req[p].ticket.assigned_to]
          /\ last' = NoResponse
  /\ UNCHANGED <<db, env>>

\* TicketAssignment.update({is_active: false}, ...)
ReassignDeactivate(p) ==
  /\ At(p, "reassign", "deactivate")
  /\ assignments' = Deactivate(assignments, req[p].id)
  /\ Goto(p, "create")
  /\ UNCHANGED <<tickets, approvals, history, env>>

\* TicketAssignment.create
ReassignCreate(p) ==
  /\ At(p, "reassign", "create")
  /\ assignments' = Append(assignments,
       AssignmentRow(req[p].id, req[p].arg, req[p].user))
  /\ Goto(p, "update")
  /\ UNCHANGED <<tickets, approvals, history, env>>

\* ticket.update({ assigned_to })
ReassignUpdate(p) ==
  /\ At(p, "reassign", "update")
  /\ tickets' = [tickets EXCEPT ![req[p].id].assigned_to = req[p].arg]
  /\ req' = [req EXCEPT ![p].pc = "history", ![p].ticket.assigned_to = req[p].arg,
       ![p].was = tickets[req[p].id].assigned_to]
  /\ UNCHANGED <<assignments, approvals, history, env>>
  /\ last' = NoResponse

\* TicketHistory.create({action: 'assigned', old_value: oldAssignedTo, ...})
ReassignHistory(p) ==
  /\ At(p, "reassign", "history")
  /\ LogOrThrow(p, HistoryRow(req[p].id, "assigned", req[p].old, req[p].arg, "assigned_to"),
       "notify")
  /\ UNCHANGED <<tickets, assignments, approvals, world>>

\* the two notifications and res.json
ReassignNotify(p) ==
  /\ At(p, "reassign", "notify")
  /\ \/ Works /\ Respond(p, "ok")
     \/ Fault /\ Respond(p, "error")
  /\ UNCHANGED <<db, world>>

\* ------------------------------ POST /unassign/:ticketId (assignments.ts)
\* the request arrives: findByPk, the assigned check, oldAssignedTo
UnassignStart(p) ==
  /\ Arrive(p)
  /\ \E u \in {x \in Users : canAssignTickets(x)},
        t \in DOMAIN tickets \cup {MissingTicket} :
       LET inst == findByPk(t)
       IN IF ~Found(t) THEN Reject(p, "unassign", t, "not_found")
          ELSE IF inst.assigned_to = NULL
            THEN Reject(p, "unassign", t, "not_assigned")
          ELSE Enter(p, [Loaded("unassign", NULL, t, NULL, inst, "deactivate")
                       EXCEPT !.old = inst.assigned_to])
  /\ UNCHANGED db

\* TicketAssignment.update({is_active: false}, ...)
UnassignDeactivate(p) ==
  /\ At(p, "unassign", "deactivate")
  /\ assignments' = Deactivate(assignments, req[p].id)
  /\ Goto(p, "update")
  /\ UNCHANGED <<tickets, approvals, history, env>>

\* an update that clears the assignee and leaves the status alone
UnassignUpdateKeepingStatus(p) ==
  /\ At(p, "unassign", "update")
  /\ tickets' = [tickets EXCEPT ![req[p].id].assigned_to = NULL]
  /\ req' = [req EXCEPT ![p].pc = "history", ![p].ticket.assigned_to = NULL]
  /\ UNCHANGED <<assignments, approvals, history, env>>
  /\ last' = NoResponse

\* ticket.update({ assigned_to: null, status: 'approved' })
UnassignUpdate(p) ==
  /\ At(p, "unassign", "update")
  /\ tickets' = [tickets EXCEPT ![req[p].id].status = "approved",
                              ![req[p].id].assigned_to = NULL]
  /\ req' = [req EXCEPT ![p].pc = "history",
       ![p].ticket.status = "approved", ![p].ticket.assigned_to = NULL,
       ![p].was = tickets[req[p].id].assigned_to]
  /\ UNCHANGED <<assignments, approvals, history, env>>
  /\ last' = NoResponse

\* TicketHistory.create({action: 'assigned', old_value: oldAssignedTo, new_value: null})
UnassignHistory(p) ==
  /\ At(p, "unassign", "history")
  /\ LogOrThrow(p, HistoryRow(req[p].id, "assigned", req[p].old, NULL, "assigned_to"),
       "notify")
  /\ UNCHANGED <<tickets, assignments, approvals, world>>

\* Notification.create and res.json
UnassignNotify(p) ==
  /\ At(p, "unassign", "notify")
  /\ \/ Works /\ Respond(p, "ok")
     \/ Fault /\ Respond(p, "error")
  /\ UNCHANGED <<db, world>>

\* --------------------------------- POST /auto-assign (assignments.ts)
\* max_assignments when the body gives none
DefaultMaxAssignments == 5

\* ORDER BY priority DESC, created_at ASC
TicketBefore(a, b) ==
  \/ PriorityRank(TicketPriority(a)) > PriorityRank(TicketPriority(b))
  \/ /\ PriorityRank(TicketPriority(a)) = PriorityRank(TicketPriority(b))
     /\ TicketCreatedAt(a) < TicketCreatedAt(b)

RECURSIVE OrderTickets(_)
OrderTickets(S) ==
  IF S = {} THEN <<>>
  ELSE LET first == CHOOSE t \in S : \A o \in S \ {t} : TicketBefore(t, o)
       IN <<first>> \o OrderTickets(S \ {first})

\* LIMIT n
Limit(s, n) == SubSeq(s, 1, IF Len(s) < n THEN Len(s) ELSE n)

\* Ticket.findAll({where: {factory_id, status: 'approved', assigned_to: null}, order, limit})
UnassignedTickets(f, n) ==
  Limit(OrderTickets({t \in DOMAIN tickets :
          /\ TicketFactory(t) = f
          /\ tickets[t].status = "approved"
          /\ tickets[t].assigned_to = NULL}), n)

\* User.findAll({where: {factory_id, role: ['support_staff', 'manager'], is_active: true}})
SupportStaff(f) ==
  {u \in Users : UserFactory(u) = f /\ Role(u) \in {"support_staff", "manager"}}

\* the orders in which a query without ORDER BY may return a set of rows
RowOrders(S) ==
  {s \in [1..Cardinality(S) -> S] : \A a, b \in 1..Cardinality(S) : s[a] = s[b] => a = b}

\* staffWorkload.sort((a, b) => a.activeCount - b.activeCount), a stable sort
RECURSIVE SortByLoad(_)
SortByLoad(s) ==
  IF Len(s) <= 1 THEN s
  ELSE LET m == CHOOSE k \in 1..Len(s) :
                  /\ \A j \in 1..Len(s) : s[k].activeCount <= s[j].activeCount
                  /\ \A j \in 1..(k - 1) : s[j].activeCount > s[k].activeCount
       IN <<s[m]>> \o SortByLoad(SubSeq(s, 1, m - 1) \o SubSeq(s, m + 1, Len(s)))

\* staffWorkload[staffIndex % staffWorkload.length]
StaffSlot(r) == (r.staffIndex % Len(r.staff)) + 1
AssignedStaff(r) == r.staff[StaffSlot(r)].staff

\* the request arrives: body check and the findAll of unassigned tickets
AutoStart(p) ==
  /\ Arrive(p)
  /\ \E u \in {x \in Users : canAssignTickets(x)},
        f \in Factories \cup {NULL},
        n \in {1, DefaultMaxAssignments} :
       LET found == UnassignedTickets(f, n)
       IN IF f = NULL THEN Reject(p, "auto", NULL, "bad_request")
          ELSE IF found = <<>> THEN Reject(p, "auto", NULL, "ok")
          ELSE Enter(p, [Idle EXCEPT !.pc = "staff", !.op = "auto", !.user = u,
                                 !.arg = f, !.list = found])
  /\ UNCHANGED db

\* the findAll of the factory's support staff
AutoFindStaff(p) ==
  /\ At(p, "auto", "staff")
  /\ IF SupportStaff(req[p].arg) = {} THEN Respond(p, "no_staff")
     ELSE \E rows \in RowOrders(SupportStaff(req[p].arg)) :
            /\ req' = [req EXCEPT ![p].pc = "count",
                 ![p].staff = [k \in 1..Len(rows) |->
                                 [staff |-> rows[k], activeCount |-> -1]]]
            /\ last' = NoResponse
  /\ UNCHANGED <<db, env>>

\* one Ticket.count of the Promise.all returns; after the last one the sort
AutoCount(p) ==
  /\ At(p, "auto", "count")
  /\ \E k \in 1..Len(req[p].staff) :
       /\ req[p].staff[k].activeCount = -1
       /\ LET counted == [req[p].staff EXCEPT
                            ![k].activeCount = Workload(req[p].staff[k].staff)]
              all == \A j \in 1..Len(counted) : counted[j].activeCount # -1
          IN req' = [req EXCEPT
               ![p].staff = IF all THEN SortByLoad(counted) ELSE counted,
               ![p].pc = IF all THEN "create" ELSE "count",
               ![p].i = IF all THEN 1 ELSE 0]
  /\ UNCHANGED <<db, env>>
  /\ last' = NoResponse

\* TicketAssignment.create for unassignedTickets[i]
AutoCreate(p) ==
  /\ At(p, "auto", "create")
  /\ assignments' = Append(assignments,
       AssignmentRow(req[p].list[req[p].i], AssignedStaff(req[p]), req[p].user))
  /\ Goto(p, "update")
  /\ UNCHANGED <<tickets, approvals, history, env>>

\* ticket.update({ assigned_to: assignedStaff.id, status: 'in_progress' })
AutoUpdate(p) ==
  /\ At(p, "auto", "update")
  /\ tickets' = [tickets EXCEPT
       ![req[p].list[req[p].i]].status = "in_progress",
       ![req[p].list[req[p].i]].assigned_to = AssignedStaff(req[p])]
  /\ Goto(p, "history")
  /\ UNCHANGED <<assignments, approvals, history, env>>

\* the catch of the loop body: the error is logged, the loop goes to the next
\* ticket with staffIndex and the counts as they are, or res.json
AutoFailed(p) ==
  LET r == req[p]
  IN IF r.i = Len(r.list) THEN Reply(p, "auto", NULL, "ok", r.out, <<>>)
     ELSE /\ req' = [req EXCEPT ![p] = [r EXCEPT !.pc = "create", !.i = r.i + 1]]
          /\ last' = NoResponse

\* TicketHistory.create({action: 'assigned', old_value: null, ...})
AutoHistory(p) ==
  /\ At(p, "auto", "history")
  /\ \/ Logged(p, HistoryRow(req[p].list[req[p].i], "assigned", NULL,
                              AssignedStaff(req[p]), "assigned_to"), "notify")
     \/ Fault /\ history' = history /\ AutoFailed(p)
  /\ UNCHANGED <<tickets, assignments, approvals, world>>

\* Notification.create, assignments.push, activeCount++, staffIndex++, and
\* res.json after the last ticket
AutoNotify(p) ==
  /\ At(p, "auto", "notify")
  /\ \/ /\ Works
        /\ LET r == req[p]
               out == Append(r.out, [ticketId |-> r.list[r.i],
                                     assignedTo |-> AssignedStaff(r)])
           IN IF r.i = Len(r.list) THEN Reply(p, "auto", NULL, "ok", out, <<>>)
              ELSE /\ req' = [req EXCEPT ![p] =
                        [r EXCEPT !.pc = "create", !.i = r.i + 1, !.out = out,
                                  !.staffIndex = r.staffIndex + 1,
                                  !.staff[StaffSlot(r)].activeCount =
                                     r.staff[StaffSlot(r)].activeCount + 1]]
                   /\ last' = NoResponse
     \/ Fault /\ AutoFailed(p)
  /\ UNCHANGED <<db, world>>

Next ==
  \E p \in Procs :
    \/ StatusStart(p)
    \/ StatusUpdate(p)
    \/ StatusHistory(p)
    \/ StatusNotify(p)
    \/ ApproveStart(p)
    \/ ApproveUpdate(p)
    \/ ApproveRecord(p)
    \/ ApproveHistory(p)
    \/ ApproveNotify(p)
    \/ BulkStart(p)
    \/ BulkFind(p)
    \/ BulkUpdate(p)
    \/ BulkRecord(p)
    \/ BulkHistory(p)
    \/ BulkNotify(p)
    \/ AssignStart(p)
    \/ AssignFindUser(p)
    \/ AssignDeactivate(p)
    \/ AssignCreate(p)
    \/ AssignUpdate(p)
    \/ AssignHistory(p)
    \/ AssignNotify(p)
    \/ SelfAssignStart(p)
    \/ SelfAssignCount(p)
    \/ SelfAssignCreate(p)
    \/ SelfAssignUpdate(p)
    \/ SelfAssignHistory(p)
    \/ SelfAssignNotify(p)
    \/ ReassignStart(p)
    \/ ReassignFindUser(p)
    \/ ReassignDeactivate(p)
    \/ ReassignCreate(p)
    \/ ReassignUpdate(p)
    \/ ReassignHistory(p)
    \/ ReassignNotify(p)
    \/ UnassignStart(p)
    \/ UnassignDeactivate(p)
    \/ UnassignUpdate(p)
    \/ UnassignHistory(p)
    \/ UnassignNotify(p)
    \/ AutoStart(p)
    \/ AutoFindStaff(p)
    \/ AutoCount(p)
    \/ AutoCreate(p)
    \/ AutoUpdate(p)
    \/ AutoHistory(p)
    \/ AutoNotify(p)

Spec == Init /\ [][Next]_vars

SpecSerial == InitSerial /\ [][Next]_vars

\* the support staff member already works on one ticket less than the
\* workload limit of self-assign, or on as many
InitCap ==
  /\ InitDb /\ left = MaxSerialRequests /\ serial = TRUE /\ InitSla
  /\ \E n \in {maxWorkload - 1, maxWorkload} :
       load = [NoLoad EXCEPT !["staff"] = n]

\* one request at a time, and the database may reject writes of history and
\* notification rows
InitFaulty ==
  /\ InitDb /\ left = MaxFaultyRequests /\ serial = TRUE /\ load = NoLoad
  /\ zone = UtcZone /\ now = ShiftAt /\ made = NoTicket /\ call = NoCall
  /\ faults = MaxFaults

SpecFaulty == InitFaulty /\ [][Next]_vars

\* one request at a time, the support staff member at or near the workload limit
SpecCap == InitCap /\ [][Next]_vars

\* ----------------------------------------- batches of auto-assign
\* auto-assign requests of one behaviour of SpecBatch
MaxBatches == 2

\* the tickets tables of SpecBatch
BatchTables == {{"T1", "T2"}, {"T1", "T2", "T3"}}

\* the sequence number of the ticket number of the rows of SpecBatch
TicketSequence(t) == CASE t = "T1" -> 1 [] t = "T2" -> 2 [] OTHER -> 3

\* the rows PUT /:id/status (to admin_review) and POST /:id/approve have
\* written for ticket t, after the row of POST /
ApprovedHistory(t) ==
  <<HistoryRow(t, "created", NULL, "pending", "status"),
    HistoryRow(t, "status_changed", "admin_review", "admin_review", "status"),
    HistoryRow(t, "approved", "admin_review", "approved", "status")>>

RECURSIVE FlatMap(_, _)
FlatMap(Op(_), s) == IF s = <<>> THEN <<>> ELSE Op(Head(s)) \o FlatMap(Op, Tail(s))

\* two or three tickets are approved and unassigned, each support user has
\* no or one other ticket, and the database may reject a write of a history
\* or notification row
InitBatch ==
  /\ \E S \in BatchTables :
       /\ tickets = [t \in S |->
            [TicketRow(TicketNumber(0, TicketSequence(t))) EXCEPT !.status = "approved"]]
       /\ approvals = [k \in 1..Cardinality(S) |->
                         ApprovalRow(OrderTickets(S)[k], "approved")]
       /\ history = FlatMap(ApprovedHistory, OrderTickets(S))
  /\ assignments = <<>>
  /\ req = [p \in Procs |-> Idle]
  /\ last = NoResponse
  /\ left = MaxBatches /\ serial = TRUE
  /\ \E a, b \in {0, 1} : load = [NoLoad EXCEPT !["staff"] = a, !["manager"] = b]
  /\ zone = UtcZone /\ now = ShiftAt /\ made = NoTicket /\ call = NoCall
  /\ faults = MaxFaults

NextAuto ==
  \E p \in Procs :
    \/ AutoStart(p)
    \/ AutoFindStaff(p)
    \/ AutoCount(p)
    \/ AutoCreate(p)
    \/ AutoUpdate(p)
    \/ AutoHistory(p)
    \/ AutoNotify(p)

\* managers send auto-assign requests, one at a time
SpecBatch == InitBatch /\ [][NextAuto]_vars

\* ------------------------------------- self-assign requests in parallel
\* self-assign requests of one behaviour of SpecRush
MaxSelfAssigns == 3

NextSelfAssign ==
  \E p \in Procs :
    \/ SelfAssignStart(p)
    \/ SelfAssignCount(p)
    \/ SelfAssignCreate(p)
    \/ SelfAssignUpdate(p)
    \/ SelfAssignHistory(p)
    \/ SelfAssignNotify(p)

\* two or three tickets are approved and unassigned, and the support staff
\* member already works on one or two tickets less than the workload limit
InitRush ==
  /\ \E S \in BatchTables :
       /\ tickets = [t \in S |->
            [TicketRow(TicketNumber(0, TicketSequence(t))) EXCEPT !.status = "approved"]]
       /\ approvals = [k \in 1..Cardinality(S) |->
                         ApprovalRow(OrderTickets(S)[k], "approved")]
       /\ history = FlatMap(ApprovedHistory, OrderTickets(S))
  /\ assignments = <<>>
  /\ req = [p \in Procs |-> Idle]
  /\ last = NoResponse
  /\ left = MaxSelfAssigns /\ serial = FALSE
  /\ \E n \in {maxWorkload - 2, maxWorkload - 1} :
       load = [NoLoad EXCEPT !["staff"] = n]
  /\ zone = UtcZone /\ now = ShiftAt /\ made = NoTicket /\ call = NoCall
  /\ faults = 0

\* support users self-assign tickets, up to NumProcs requests at a time, and
\* nothing else assigns
SpecRush == InitRush /\ [][NextSelfAssign]_vars

\* ------------------------------------------------------- the SLA clock
\* Date.prototype.getHours and setHours work on local time: the local time of
\* the instant t in the server's zone ...
LocalTime(t) == t + (IF t < zone.at THEN zone.before ELSE zone.after)

\* ... and the instant of a local time; a local time that the shift skips or
\* repeats is read with the offset before the shift
UTC(l) ==
  IF l - zone.after >= zone.at /\ l - zone.before >= zone.at
    THEN l - zone.after
    ELSE l - zone.before

\* deadline.setHours(deadline.getHours() + n)
PlusHours(t, n) == UTC(LocalTime(t) + n * HourMs)

\* new Date(v): of a Date the same instant, of a number v that many
\* milliseconds after the epoch; both are the number v here
NewDate(v) == v

Priorities == {"low", "medium", "high", "critical"}

\* calculateSLADeadline(priority, createdAt)
calculateSLADeadline(priority, createdAt) ==
  CASE priority = "critical" -> PlusHours(NewDate(createdAt), 2)
    [] priority = "high" -> PlusHours(NewDate(createdAt), 8)
    [] priority = "medium" -> PlusHours(NewDate(createdAt), 24)
    [] priority = "low" -> PlusHours(NewDate(createdAt), 72)
    [] OTHER -> PlusHours(NewDate(createdAt), 24)

\* instants for createdAt: half past the hour, some hours from the shift
Instants == {ShiftAt + d * HourMs + HourMs \div 2 : d \in {-80, -30, -24, -8, -2, -1, 0, 3}}

\* calculateSLADeadline is about to be called with two arguments
InitDeadline ==
  /\ InitDb /\ left = 0 /\ serial = TRUE /\ load = NoLoad
  /\ zone \in Zones /\ now = ShiftAt /\ made = NoTicket /\ faults = 0
  /\ \E pr \in Priorities \cup {"urgent"}, c \in Instants :
       call = [fn |-> "calculateSLADeadline", priority |-> pr, createdAt |-> c,
               done |-> FALSE, result |-> 0]

\* the call returns
ComputeDeadline ==
  /\ call.fn = "calculateSLADeadline" /\ ~call.done
  /\ call' = [call EXCEPT !.done = TRUE,
                !.result = calculateSLADeadline(call.priority, call.createdAt)]
  /\ UNCHANGED <<db, req, last, left, serial, load, zone, now, made, faults>>

SpecDeadline == InitDeadline /\ [][ComputeDeadline]_vars

\* ------------------------------------------------------ POST / (tickets.ts)
\* urgency_level: Joi.number().integer().min(1).max(5)
UrgencyLevels == 1..5

NewTicketId == "T2"

\* the server is up, no ticket has been created by the behaviour
InitCreate ==
  /\ InitDb /\ left = 0 /\ serial = TRUE /\ load = NoLoad
  /\ zone \in Zones
  /\ now \in {ShiftAt + HourMs, ShiftAt + 30 * HourMs}
  /\ made = NoTicket /\ call = NoCall /\ faults = 0

\* POST /: calculateSLADeadline(priority, urgency_level), Ticket.create with
\* status pending and created_at = NOW, the 'created' history row
CreateTicket ==
  /\ made = NoTicket
  /\ \E pr \in Priorities, ul \in UrgencyLevels :
       made' = [id |-> NewTicketId, priority |-> pr, urgency_level |-> ul,
                status |-> "pending", created_at |-> now,
                sla_deadline |-> <<calculateSLADeadline(pr, ul)>>]
  /\ history' = Append(history,
       HistoryRow(NewTicketId, "created", NULL, "pending", "status"))
  /\ UNCHANGED <<tickets, assignments, approvals, req, last, left, serial, load,
                 zone, now, call, faults>>

SpecCreate == InitCreate /\ [][CreateTicket]_vars

\* ------------------------------------- POST / await by await (tickets.ts)
\* requests of one behaviour of SpecNumbers
MaxCreates == 3

\* a factory_id that is no row of factories
GhostFactory == "F0"

\* the primary keys Ticket.create gives its rows, in the order it gives them
NewIds == <<"T2", "T3", "T4", "T5", "T6">>
NextId == NewIds[Cardinality(DOMAIN tickets)]

DayMs == 24 * HourMs

\* the date of the prefix `HIT${year}${month}${day}`: the local day of new Date()
DatePrefix == LocalTime(now) \div DayMs

\* Ticket.findOne({where: {ticket_number: {[Op.like]: `${datePrefix}%`}},
\*                 order: [['ticket_number', 'DESC']]}), NULL when no row matches
LastTicket(datePrefix) ==
  LET today == {t \in DOMAIN tickets : tickets[t].ticket_number.prefix = datePrefix}
  IN IF today = {} THEN NULL
     ELSE CHOOSE t \in today : \A o \in today \ {t} :
            StringLess(tickets[o].ticket_number.suffix, tickets[t].ticket_number.suffix)

\* generateTicketNumber, from the row findOne returns to the string returned
generateTicketNumber ==
  LET lastTicket == LastTicket(DatePrefix)
      sequence == IF lastTicket = NULL THEN 1
                  ELSE ParseInt(SliceLast(tickets[lastTicket].ticket_number.suffix, 4)) + 1
  IN TicketNumber(DatePrefix, sequence)

\* the tickets table holds a ticket of every kind of number: of an earlier
\* day, the first of today, or the 9999th of today
InitNumbers ==
  /\ zone = UtcZone /\ now = ShiftAt /\ made = NoTicket /\ call = NoCall
  /\ faults = 0 /\ left = MaxCreates /\ serial = FALSE /\ load = NoLoad
  /\ \E n \in {TicketNumber(0, 1), TicketNumber(DatePrefix, 1),
               TicketNumber(DatePrefix, 9999)} :
       tickets = [t \in TicketIds |-> TicketRow(n)]
  /\ assignments = <<>>
  /\ approvals = <<>>
  /\ history = <<HistoryRow("T1", "created", NULL, "pending", "status")>>
  /\ req = [p \in Procs |-> Idle]
  /\ last = NoResponse

\* the request arrives: the required fields and Factory.findByPk(factory_id)
PostStart(p) ==
  /\ Arrive(p)
  /\ \E u \in {x \in Users : canCreateTickets(x)},
        f \in Factories \cup {GhostFactory, NULL} :
       IF f = NULL THEN Reject(p, "create", NULL, "bad_request")
       ELSE IF f \notin Factories THEN Reject(p, "create", NULL, "not_found")
       ELSE Enter(p, [Idle EXCEPT !.pc = "number", !.op = "create"])
  /\ UNCHANGED db

\* generateTicketNumber: findOne returns, the number is built from its row;
\* calculateSLADeadline
PostNumber(p) ==
  /\ At(p, "create", "number")
  /\ req' = [req EXCEPT ![p].pc = "insert", ![p].arg = generateTicketNumber]
  /\ last' = NoResponse
  /\ UNCHANGED <<db, env>>

\* Ticket.create({ticket_number, status: 'pending', ...}): the unique index
\* on ticket_number rejects a number that a row already has, the error
\* leaves the handler and the request is answered with it
PostInsert(p) ==
  /\ At(p, "create", "insert")
  /\ IF \E t \in DOMAIN tickets : tickets[t].ticket_number = req[p].arg
       THEN /\ Reply(p, "create", NULL, "conflict", <<>>, <<>>)
            /\ tickets' = tickets
       ELSE /\ tickets' = [t \in DOMAIN tickets \cup {NextId} |->
                             IF t = NextId THEN TicketRow(req[p].arg) ELSE tickets[t]]
            /\ req' = [req EXCEPT ![p].pc = "history", ![p].id = NextId]
            /\ last' = NoResponse
  /\ UNCHANGED <<assignments, approvals, history, env>>

\* createTicketHistory(ticket.id, .., 'created', undefined, 'pending', 'status')
PostHistory(p) ==
  /\ At(p, "create", "history")
  /\ TryLog(p, HistoryRow(req[p].id, "created", NULL, "pending", "status"), "notify")
  /\ UNCHANGED <<tickets, assignments, approvals, world>>

\* User.findAll of the admins, createNotification for each (an error is logged
\* and swallowed), findByPk of the new ticket and res.status(201)
PostNotify(p) ==
  /\ At(p, "create", "notify")
  /\ Works \/ Fault
  /\ Reply(p, "create", req[p].id, "created", <<>>, <<>>)
  /\ UNCHANGED <<db, world>>

NextPost ==
  \E p \in Procs :
    \/ PostStart(p)
    \/ PostNumber(p)
    \/ PostInsert(p)
    \/ PostHistory(p)
    \/ PostNotify(p)

\* clients create tickets, up to NumProcs of them at a time
SpecNumbers == InitNumbers /\ [][NextPost]_vars

\* ------------------------------------------------ Ticket.isOverdue (model)
isCompleted(t) == t.status = "completed"
isClosed(t) == t.status = "closed"

\* isOverdue(): sla_deadline is <<>> when the column is null
isOverdue(t) ==
  IF t.sla_deadline = <<>> \/ isCompleted(t) \/ isClosed(t)
    THEN FALSE
    ELSE now > t.sla_deadline[1]

\* a tickets row in any status, with or without a deadline, at some time
InitOverdue ==
  /\ InitDb /\ left = 0 /\ serial = TRUE /\ load = NoLoad
  /\ zone = UtcZone
  /\ now \in {ShiftAt, ShiftAt + HourMs, ShiftAt + 2 * HourMs}
  /\ \E st \in Statuses, dl \in {<<>>, <<ShiftAt - HourMs>>, <<ShiftAt + HourMs>>} :
       made = [id |-> NewTicketId, priority |-> "medium", urgency_level |-> 3,
               status |-> st, created_at |-> ShiftAt - 24 * HourMs,
               sla_deadline |-> dl]
  /\ call = NoCall /\ faults = 0

\* ticket.isOverdue() is called
CallIsOverdue ==
  /\ call.fn = NULL
  /\ call' = [fn |-> "isOverdue", result |-> isOverdue(made)]
  /\ UNCHANGED <<db, req, last, left, serial, load, zone, now, made, faults>>

SpecOverdue == InitOverdue /\ [][CallIsOverdue]_vars

\* ================================================================ claims
\* the transition table of the specification, section 4.1
TableEdges ==
  {<<"pending", "admin_review">>, <<"admin_review", "approved">>,
   <<"admin_review", "rejected">>, <<"approved", "in_progress">>,
   <<"in_progress", "completed">>, <<"completed", "closed">>}

\* rows of ticket_assignments of ticket t with is_active = true
ActiveRows(t) ==
  {k \in 1..Len(assignments) :
     assignments[k].ticket_id = t /\ assignments[k].is_active}

\* the step is the first step of a request op on ticket t: it is answered at
\* once (the slots are as before) or it takes a free slot
Arrival(op, t) ==
  /\ left' = left - 1
  /\ \/ req' = req /\ last'.op = op /\ last'.id = t
     \/ \E p \in Procs : Free(p) /\ req'[p].op = op /\ req'[p].id = t

\* the step is the write of the new status by a PUT /:id/status request
StatusWrite(p, t) ==
  At(p, "status", "update") /\ req[p].id = t /\ req'[p].pc = "history"

\* C1: transitionStatus changes a ticket's status from s to t only when
\* (s, t) is an edge of the table; a request for any other pair (t = s, or
\* any t from rejected or closed) is answered with an invalid-transition
\* error and changes nothing.
C1_StatusFollowsTable ==
  [][\A t \in TicketIds :
       /\ \A p \in Procs :
            StatusWrite(p, t)
              => <<tickets[t].status, tickets'[t].status>> \in TableEdges
       /\ \A p \in Procs :
            (Free(p) /\ req'[p].op = "status" /\ req'[p].id = t)
              => <<tickets[t].status, req'[p].arg>> \in TableEdges
       /\ (Arrival("status", t) /\ last'.res = "invalid_transition")
              => UNCHANGED db]_vars

\* C2: rejected and closed are terminal: no step changes a status that is
\* rejected or closed.
C2_TerminalStatuses ==
  [][\A t \in TicketIds :
       tickets[t].status \in {"rejected", "closed"}
         => tickets'[t].status = tickets[t].status]_vars

\* C3: at every reachable state every ticket has at most one active
\* AssignmentRecord.
C3_AtMostOneActive ==
  \A t \in TicketIds : Cardinality(ActiveRows(t)) <= 1

\* C4: at every state, the intermediate states of a call included,
\* ticket.assigned_to is the assignee of the ticket's active AssignmentRecord,
\* and null when the ticket has none.
C4_AssigneeMatchesActiveRecord ==
  \A t \in TicketIds :
    /\ ActiveRows(t) = {} => tickets[t].assigned_to = NULL
    /\ \A k \in ActiveRows(t) : tickets[t].assigned_to = assignments[k].assigned_to

\* requests p and q run at the same time, on the same ticket, and both have
\* made all their writes and are about to answer with success
BothSucceed(op, p, q) ==
  /\ p # q
  /\ At(p, op, "notify") /\ At(q, op, "notify")
  /\ req[p].id = req[q].id

\* C5: of two assign calls with different assignees that run concurrently on
\* one approved ticket exactly one succeeds; the other fails and writes no
\* AssignmentRecord.
C5_OneAssignSucceeds ==
  \A p, q \in Procs :
    ~(BothSucceed("assign", p, q) /\ req[p].arg # req[q].arg)

\* C6: of two transitionStatus calls that race for the same legal edge of one
\* ticket exactly one succeeds, so the edge is applied once and one
\* status_changed entry is written for it.
C6_OneTransitionSucceeds ==
  \A p, q \in Procs :
    ~(BothSucceed("status", p, q) /\ req[p].arg = req[q].arg)

\* rows of ticket_approvals of ticket t with a decision other than pending
DecidedRows(t) ==
  {k \in 1..Len(approvals) :
     approvals[k].ticket_id = t /\ approvals[k].decision # "pending"}

\* C7: for every ticket at most one ApprovalRecord with a decision of approved
\* or rejected is ever written, whatever decide and bulk decide calls run.
C7_OneDecisionPerTicket ==
  \A t \in TicketIds : Cardinality(DecidedRows(t)) <= 1

\* the element a bulk request loads in this step, when slot p is at its loop head
BulkElement(p) == req[p].list[req[p].i]

\* C8: decide on a ticket whose status is not admin_review is answered with an
\* invalid-state error and changes nothing: no status change, no
\* ApprovalRecord, no audit entry. The same holds per ticket of a bulk decide.
C8_DecideNeedsAdminReview ==
  [][\A t \in TicketIds :
       /\ (Arrival("approve", t) /\ tickets[t].status # "admin_review"
             /\ last'.res # "bad_request")
            => /\ last'.op = "approve" /\ last'.res = "invalid_state"
               /\ req' = req
               /\ UNCHANGED db
       /\ \A p \in Procs :
            (/\ req[p].pc \in {"idle", "find"}
             /\ req'[p].op = "bulk" /\ req'[p].pc = "update" /\ req'[p].id = t)
              => tickets[t].status = "admin_review"
       /\ \A p \in Procs :
            (/\ At(p, "bulk", "find") /\ BulkElement(p) = t
             /\ req'[p] # req[p]
             /\ tickets[t].status # "admin_review")
              => /\ UNCHANGED db
                 /\ LET errs == IF req'[p].pc = "idle" THEN last'.errs
                                ELSE req'[p].errs
                    IN errs = Append(req[p].errs,
                                [ticketId |-> t, error |-> "invalid_state"])]_vars

\* a decide on a pending ticket has just been refused
C8_Witness ==
  /\ last.op = "approve" /\ last.res = "invalid_state" /\ last.id = "T1"
  /\ tickets["T1"].status = "pending"
  /\ approvals = <<>>

\* the assignees the specification allows
EligibleAssignee(u) == u \in Users /\ Role(u) \in {"support_staff", "manager"}

\* C9: assign fails and changes nothing when the ticket is not approved
\* (invalid-state error) or when the assignee does not exist or is neither
\* support staff nor manager (validation error).
C9_AssignPreconditions ==
  [][\A t \in TicketIds :
       /\ (Arrival("assign", t) /\ last'.res # "bad_request")
            => /\ UNCHANGED db
               /\ tickets[t].status # "approved"
                    => /\ last'.op = "assign" /\ last'.res = "invalid_state"
                       /\ req' = req
       /\ \A p \in Procs :
            (/\ At(p, "assign", "user") /\ req[p].id = t /\ req'[p] # req[p]
             /\ ~EligibleAssignee(req[p].arg))
              => /\ last'.op = "assign" /\ last'.res = "validation"
                 /\ req'[p].pc = "idle"
                 /\ UNCHANGED db]_vars

\* an assign to a user who is no support staff has just been refused on an
\* approved ticket
C9_Witness ==
  /\ last.op = "assign" /\ last.res = "validation" /\ last.id = "T1"
  /\ tickets["T1"].status = "approved"
  /\ assignments = <<>>

TicketRows(t) == {k \in 1..Len(assignments) : assignments[k].ticket_id = t}

\* C11: after assign to A and then reassign to B on one ticket, exactly one
\* AssignmentRecord of the ticket is active and names B, every other record of
\* the ticket (A's among them) is inactive with completed_at unset,
\* ticket.assigned_to = B, and the status is the one before the reassign.
C11_ReassignPostcondition ==
  \A p \in Procs :
    At(p, "reassign", "notify") =>
      LET t == req[p].id
      IN /\ Cardinality(ActiveRows(t)) = 1
         /\ \A k \in ActiveRows(t) : assignments[k].assigned_to = req[p].arg
         /\ \A k \in TicketRows(t) \ ActiveRows(t) :
              assignments[k].completed_at = NULL
         /\ \E k \in TicketRows(t) \ ActiveRows(t) :
              assignments[k].assigned_to = req[p].old
         /\ tickets[t].assigned_to = req[p].arg
         /\ tickets[t].status = req[p].ticket.status

\* the admin assigned the ticket to the staff member and a reassign to the
\* manager has made its writes
C11_Witness ==
  \E p \in Procs :
    /\ At(p, "reassign", "notify")
    /\ req[p].arg = "manager" /\ req[p].old = "staff"
    /\ tickets[req[p].id].status = "in_progress"
    /\ Len(assignments) = 2
    /\ assignments[1].assigned_to = "staff" /\ assignments[1].assigned_by = "admin"

OpenTicketsOf(u) ==
  load[u] + Cardinality({t \in DOMAIN tickets :
     tickets[t].assigned_to = u /\ tickets[t].status \in {"approved", "in_progress"}})

\* C13: selfAssign by user u is rejected with a capacity error, leaving the
\* ticket, the assignment ledger and the audit log unchanged, whenever u
\* already has 10 or more tickets in approved or in_progress; below that it
\* succeeds with assigner = assignee = u.
C13_SelfAssignCapacity ==
  /\ [][\A p \in Procs :
          (At(p, "selfAssign", "count") /\ req'[p] # req[p])
            => IF OpenTicketsOf(req[p].user) >= 10
                 THEN /\ last'.op = "selfAssign" /\ last'.res = "capacity"
                      /\ req'[p].pc = "idle"
                      /\ UNCHANGED db
                 ELSE req'[p].pc = "create"]_vars
  /\ [](\A p \in Procs :
          At(p, "selfAssign", "notify") =>
            LET t == req[p].id
            IN /\ tickets[t].assigned_to = req[p].user
               /\ \E k \in ActiveRows(t) :
                    /\ assignments[k].assigned_to = req[p].user
                    /\ assignments[k].assigned_by = req[p].user)
  /\ [][\A p \in Procs :
          At(p, "selfAssign", "notify") /\ req'[p] # req[p]
            => last'.op = "selfAssign" /\ last'.res = "ok"]_vars

\* the support staff member, with 10 open tickets, has just been refused
C13_Witness ==
  /\ last.op = "selfAssign" /\ last.res = "capacity" /\ last.id = "T1"
  /\ OpenTicketsOf("staff") = 10
  /\ tickets["T1"].status = "approved" /\ tickets["T1"].assigned_to = NULL
  /\ assignments = <<>>

\* the ticket write of a self-assign request on ticket t
SelfAssignWrite(p, t) ==
  At(p, "selfAssign", "update") /\ req[p].id = t /\ req'[p].pc = "history"

\* C14: selfAssign has the preconditions of assign: it makes a user the
\* assignee only of an approved ticket and only if the user is support staff or
\* manager; an admin or an employee never becomes assignee through selfAssign.
C14_SelfAssignPreconditions ==
  [][\A t \in TicketIds : \A p \in Procs :
       SelfAssignWrite(p, t)
         => /\ tickets[t].status = "approved"
            /\ tickets'[t].assigned_to = req[p].user
            /\ Role(req[p].user) \in {"support_staff", "manager"}]_vars

\* the hours the specification adds for a priority
SlaHours(priority) ==
  CASE priority = "critical" -> 2
    [] priority = "high" -> 8
    [] priority = "medium" -> 24
    [] priority = "low" -> 72
    [] OTHER -> 24

\* C15: calculateSLADeadline(priority, createdAt) is a function of its two
\* arguments alone and returns createdAt plus 2 hours for critical, 8 for
\* high, 24 for medium, 72 for low and 24 for any other priority.
C15_DeadlineIsCreatedAtPlusOffset ==
  (call.fn = "calculateSLADeadline" /\ call.done)
    => call.result = call.createdAt + SlaHours(call.priority) * HourMs

\* C16: a ticket created at time T0 through POST / has status pending and
\* sla_deadline = T0 + the offset of its priority, for every priority and
\* every urgency_level in 1..5.
C16_CreatedDeadline ==
  made.id # NULL =>
    /\ made.status = "pending"
    /\ made.sla_deadline = <<made.created_at + SlaHours(made.priority) * HourMs>>

\* C17: isOverdue is false for every ticket whose status is completed, closed
\* or rejected, whatever the deadline and the time; for every other status it
\* is true exactly when now > sla_deadline.
C17_OverdueByStatus ==
  call.fn = "isOverdue" =>
    IF made.status \in {"completed", "closed", "rejected"}
      THEN call.result = FALSE
      ELSE call.result = (made.sla_deadline # <<>> /\ now > made.sla_deadline[1])

\* the operations of the lifecycle that write one audit entry
AuditedOps == {"status", "approve", "assign", "reassign", "unassign"}

\* slot p sends the response of its request in this step
Answers(p) == req[p].pc # "idle" /\ req'[p].pc = "idle"

\* C18: every successful call of transitionStatus, decide, assign, reassign or
\* unassign (and of create) appends exactly one AuditEntry for its ticket, and
\* every failing call appends none.
C18_OneEntryPerCall ==
  [][/\ \A p \in Procs :
          (Answers(p) /\ req[p].op \in AuditedOps)
            => /\ history' = history
               /\ last'.res = "ok" => req[p].wrote = 1
               /\ last'.res # "ok" => req[p].wrote = 0
     /\ \A op \in AuditedOps, t \in DOMAIN tickets \cup {MissingTicket} :
          (Arrival(op, t) /\ req' = req)
            => last'.res # "ok" /\ history' = history]_vars

\* the column whose change an operation audits
AuditedField(op) == IF op \in {"status", "approve"} THEN "status" ELSE "assigned_to"

\* slot p inserts a history row in this step
Logs(p) ==
  /\ req[p].pc = "history" /\ req'[p].wrote = req[p].wrote + 1
  /\ Len(history') = Len(history) + 1

\* C19: in the AuditEntry written by transitionStatus, decide, assign, reassign
\* and unassign, old_value is the value the audited field had immediately
\* before the operation and new_value the value it has immediately after; so
\* old_value differs from new_value whenever the operation changed the field.
C19_AuditValues ==
  [][\A p \in Procs :
       (Logs(p) /\ req[p].op \in AuditedOps)
         => LET row == history'[Len(history')]
                t == req[p].id
                after == IF AuditedField(req[p].op) = "status"
                           THEN tickets[t].status ELSE tickets[t].assigned_to
            IN /\ row.ticket_id = t
               /\ row.field_name = AuditedField(req[p].op)
               /\ row.old_value = req[p].was
               /\ row.new_value = after
               /\ req[p].was # after => row.old_value # row.new_value]_vars

\* the audit entries of ticket t in the log h, in order
EntriesOf(h, t) == SelectSeq(h, LAMBDA r : r.ticket_id = t)

\* g is h or h with entries appended
IsPrefix(h, g) == Len(h) <= Len(g) /\ SubSeq(g, 1, Len(h)) = h

\* C20: the audit log is append-only: no step of any operation modifies or
\* deletes an existing AuditEntry, so each ticket's sequence of entries is a
\* prefix of its sequence at every later state.
C20_AuditAppendOnly ==
  [][/\ IsPrefix(history, history')
     /\ \A t \in TicketIds : IsPrefix(EntriesOf(history, t), EntriesOf(history', t))]_vars

\* several operations have written to the log of the ticket
C20_Witness ==
  /\ Len(EntriesOf(history, "T1")) >= 4
  /\ \E i, j \in 1..Len(history) :
       history[i].action = "status_changed" /\ history[j].action = "assigned"
\* C21: any two create operations, also two that run concurrently on the same
\* day, both succeed and produce tickets with distinct ticket_numbers: no
\* create is answered with an error because its number was already taken, and
\* no two rows of tickets have the same ticket_number.
C21_CreatesDoNotCollide ==
  /\ \A t, o \in DOMAIN tickets :
       tickets[t].ticket_number = tickets[o].ticket_number => t = o
  /\ ~(last.op = "create" /\ last.res = "conflict")

\* the step is the one by which the auto-assign request of slot p sends its
\* response (res.json after the loop)
BatchEnds(p) ==
  /\ req[p].op = "auto" /\ req[p].pc \in {"history", "notify"}
  /\ req'[p].pc = "idle"

\* the tickets selected by the batch of slot p (unassigned when it selected
\* them) that are assigned to u when the batch ends
Received(p, u) ==
  Cardinality({k \in 1..Len(req[p].list) :
     tickets'[req[p].list[k]].assigned_to = u})

Ceil(n, m) == (n + m - 1) \div m

\* C22: in one autoAssign batch over N unassigned approved tickets and M >= 1
\* eligible staff, no staff member receives more than ceil(N/M) more tickets
\* than the staff member who receives the fewest, also when some per-ticket
\* allocations fail.
C22_BatchBalanced ==
  [][\A p \in Procs :
       BatchEnds(p) =>
         \A a, b \in 1..Len(req[p].staff) :
           Received(p, req[p].staff[a].staff) - Received(p, req[p].staff[b].staff)
             <= Ceil(Len(req[p].list), Len(req[p].staff))]_vars

\* ticket t is an element of the list of a response
Listed(list, t) == \E j \in 1..Len(list) : list[j].ticketId = t

\* the step is one in which a write of the loop body of the auto-assign
\* request of slot p throws
AllocationFails(p) ==
  /\ req[p].op = "auto" /\ req[p].pc \in {"history", "notify"}
  /\ faults' < faults

\* C23: when the allocation of one ticket fails inside an autoAssign batch,
\* the failure is caught and the remaining tickets are still processed (the
\* loop goes on with the next ticket), and the response contains the list of
\* successes and the list of failures, every selected ticket being in exactly
\* one of the two.
C23_BatchReportsFailures ==
  [][\A p \in Procs :
       /\ (AllocationFails(p) /\ req[p].i < Len(req[p].list))
            => (req'[p].pc = "create" /\ req'[p].i = req[p].i + 1)
       /\ BatchEnds(p) =>
            \A k \in 1..Len(req[p].list) :
              Listed(last'.out, req[p].list[k]) # Listed(last'.errs, req[p].list[k])]_vars

\* C29: the list of successful assignments autoAssign returns is exactly the
\* set of tickets the batch moved to in_progress with a new active
\* AssignmentRecord, also when the history or notification write of a ticket
\* fails after the ticket was updated.
C29_BatchReportsEveryMutation ==
  [][\A p \in Procs :
       BatchEnds(p) =>
         \A k \in 1..Len(req[p].list) :
           LET t == req[p].list[k]
           IN Listed(last'.out, t)
                <=> (tickets'[t].status = "in_progress" /\ ActiveRows(t) # {})]_vars

\* C24: every status change performed by any operation is an edge of the
\* transition table of section 4.1: in every step a ticket's status is
\* unchanged or moves along one of the six edges.
C24_EveryChangeIsAnEdge ==
  [][\A t \in DOMAIN tickets :
       \/ tickets'[t].status = tickets[t].status
       \/ <<tickets[t].status, tickets'[t].status>> \in TableEdges]_vars

\* rows of ticket_approvals of ticket t
ApprovalRows(t) == {k \in 1..Len(approvals) : approvals[k].ticket_id = t}

\* the decision the specification gives the ApprovalRecord of a ticket in a status
DecisionFor(status) ==
  CASE status = "admin_review" -> "pending"
    [] status = "rejected" -> "rejected"
    [] OTHER -> "approved"

\* C25: at every reachable state every ticket past pending has exactly one
\* ApprovalRecord, with decision pending in admin_review, rejected in
\* rejected, and approved in approved, in_progress, completed and closed.
C25_OneApprovalRecord ==
  \A t \in DOMAIN tickets :
    tickets[t].status # "pending"
      => /\ Cardinality(ApprovalRows(t)) = 1
         /\ \A k \in ApprovalRows(t) :
              approvals[k].decision = DecisionFor(tickets[t].status)

\* no operation is in progress
Quiescent == \A p \in Procs : Free(p)

\* C26: at every quiescent state ticket.assigned_to is non-null if and only
\* if the ticket's status is in_progress.
C26_AssigneeIffInProgress ==
  Quiescent =>
    \A t \in DOMAIN tickets :
      tickets[t].assigned_to # NULL <=> tickets[t].status = "in_progress"

\* the step is the one by which request op of slot p on ticket t, with
\* argument arg, is answered with success
Succeeds(p, op, t) ==
  /\ req[p].op = op /\ req[p].id = t /\ req[p].pc = "notify"
  /\ req'[p].pc = "idle" /\ last'.res = "ok"

\* the lifecycle timestamps of a tickets row
Stamps(row) ==
  <<row.approved_at, row.assigned_at, row.resolved_at, row.closed_at>>

\* C27: lifecycle timestamps are stamped at their transition, exactly once:
\* approved_at by a successful decide with decision approved, assigned_at by
\* an assignment, resolved_at on entering completed, closed_at on entering
\* closed; a timestamp that is set never changes; and every ticket in
\* completed or closed has resolved_at set.
C27_TimestampsStamped ==
  /\ [](\A t \in DOMAIN tickets :
          tickets[t].status \in {"completed", "closed"}
            => tickets[t].resolved_at # <<>>)
  /\ [][\A t \in DOMAIN tickets :
         /\ \A p \in Procs :
              /\ (Succeeds(p, "approve", t) /\ req[p].arg = "approved")
                   => tickets'[t].approved_at # <<>>
              /\ (Succeeds(p, "assign", t) \/ Succeeds(p, "selfAssign", t))
                   => tickets'[t].assigned_at # <<>>
              /\ (Succeeds(p, "status", t) /\ req[p].arg = "completed")
                   => tickets'[t].resolved_at # <<>>
              /\ (Succeeds(p, "status", t) /\ req[p].arg = "closed")
                   => tickets'[t].closed_at # <<>>
         /\ \A k \in 1..Len(Stamps(tickets[t])) :
              Stamps(tickets[t])[k] # <<>>
                => Stamps(tickets'[t])[k] = Stamps(tickets[t])[k]]_vars

\* the operations of which the specification says that a failed notification
\* is swallowed
NotifyingOps ==
  {"create", "status", "approve", "assign", "selfAssign", "reassign",
   "unassign", "auto"}

\* the step is one in which the notification write of the request of slot p fails
NotificationFails(p) ==
  /\ req[p].op \in NotifyingOps /\ req[p].pc = "notify"
  /\ faults' < faults

\* C28: if writing the notification fails during a state-changing operation,
\* the failure is swallowed: the mutation already made stays committed and
\* the operation still reports success for that ticket to its caller (for
\* autoAssign: the ticket is in the list of successful assignments).
C28_NotificationFailureSwallowed ==
  [][\A p \in Procs :
       NotificationFails(p) =>
         /\ UNCHANGED db
         /\ IF req[p].op = "auto"
              THEN Listed(IF req'[p].pc = "idle" THEN last'.out ELSE req'[p].out,
                          req[p].list[req[p].i])
              ELSE req'[p].pc = "idle" /\ last'.res \in {"ok", "created"}]_vars

\* C30: when tickets are assigned only through selfAssign, the number of
\* tickets with assigned_to = u and status approved or in_progress never
\* exceeds the maximum workload for any user u, also when u issues several
\* selfAssign calls on different tickets concurrently.
C30_WorkloadCapHolds ==
  \A u \in Users : OpenTicketsOf(u) <= maxWorkload

====
